---------------------------- MODULE Spec2Model ----------------------------
(***************************************************************************)
(* A model of the MaxText serving glue (maxengine_config.py,               *)
(* maxengine_server.py) and of the sharding benchmark script               *)
(* (pedagogical_examples/xaot_shardings.py).                               *)
(*                                                                         *)
(* Three specifications share the variables below:                         *)
(*   SpecServer  get_server_config and the server's main;                  *)
(*   SpecTimeit  simple_timeit called with an arbitrary number of tries;   *)
(*   Spec        one run of the benchmark script, top to bottom.           *)
(***************************************************************************)
EXTENDS Integers, Sequences, FiniteSets, TLC

\* ------------------------------------------------------------- bounds
MaxDeviceCount == 12     \* jax.device_count() ranges over 1..MaxDeviceCount
MaxDcn         == 2      \* each --dcn_* argument ranges over 1..MaxDcn
MaxIci         == 4      \* each --ici_* argument ranges over 1..MaxIci
MaxSlices      == 2      \* slices of the device set
MaxPerSlice    == 4      \* devices per slice
MaxTries       == 3      \* tries of a direct simple_timeit call: 0..MaxTries
MaxDur         == 1      \* clock ticks (microseconds) one call of f may take

\* -------------------------------------------------- program constants
Threads             == 128       \* maxengine_server.py: threads=128
Port                == 9000      \* maxengine_server.py: port=9000
DefaultTries        == 5         \* simple_timeit(f, tries = 5, ...)
DefaultEmbedding    == 2048      \* --embedding_dimension default
DefaultBatchSize    == 131072    \* --batch_size default
DefaultNumLayers    == 4         \* --num_layers default
FlopsPerParam       == 6         \* parameters * 6 * BATCH
TeraExp             == 12        \* / 10**12
Prec                == 53        \* significand bits of a Python float

VARIABLES
  \* ---- maxengine_config.py / maxengine_server.py
  spc,            \* position of the serving program
  entry,          \* "main" or "get_server_config": which function was entered
  config_str,     \* get_server_config's first argument ("unset" before a call)
  config,         \* the config object handed to main / get_server_config
  device_count,   \* what jax.device_count() answers
  devices,        \* main's local `devices` ("unset" before get_devices)
  server_config,  \* the ServerConfig returned (None before / on a raise)
  server_runs,    \* the server_lib.run calls made so far, in order
  engines,        \* the engines built by create_maxengine so far
  dev_reads,      \* how many times jax.device_count() was read
  \* ---- xaot_shardings.py: simple_timeit
  tpc,            \* position inside simple_timeit ("idle" outside it)
  tries,          \* its tries argument
  iter,           \* iterations of the for loop completed
  clock,          \* datetime.datetime.now(), in ticks
  s,              \* the local s of the current iteration
  outcomes,       \* the list of recorded durations
  calls,          \* how many times f was called
  average_time,   \* the value returned (None before the return)
  \* ---- xaot_shardings.py: the script
  pc,             \* position of the script
  args,           \* the parsed command line
  env,            \* the device set the run sees
  devices_array,  \* the mesh request made (None before it)
  xs,             \* the running xaot_save call (None outside one)
  bound,          \* the script's names pjit_gen_data, pjit_gen_layers, pjit_func
  fs,             \* the two pickle files
  trace_open,     \* profiler traces open
  TFLOPs_per_device, \* the throughput numerator (None before line 322)
  error,          \* the exception that ended the run ("none" if none)
  events          \* log of the external calls made, in order

serverVars == <<spc, entry, config_str, config, device_count, devices,
                server_config, server_runs, engines, dev_reads>>
timeitVars == <<tpc, tries, iter, clock, s, outcomes, calls, average_time>>
scriptVars == <<pc, args, env, devices_array, xs, bound, fs, trace_open,
                TFLOPs_per_device, error>>
vars == <<serverVars, timeitVars, scriptVars, events>>

\* The value of a name that holds no object yet (None, or not yet bound).
None == [none |-> TRUE]

\* =====================================================================
\* Python helpers
\* =====================================================================

\* str(n) for a non-negative int: its decimal digits, most significant first.
Digit(d) == <<"0", "1", "2", "3", "4", "5", "6", "7", "8", "9">>[d + 1]

RECURSIVE Str(_)
Str(n) == IF n < 10 THEN <<Digit(n)>> ELSE Append(Str(n \div 10), Digit(n % 10))

\* The string literal 'tpu=' as a sequence of characters.
TpuPrefix == <<"t", "p", "u", "=">>

RECURSIVE Product(_)
Product(seq) == IF seq = <<>> THEN 1 ELSE Head(seq) * Product(Tail(seq))

RECURSIVE Sum(_)
Sum(seq) == IF seq = <<>> THEN 0 ELSE Head(seq) + Sum(Tail(seq))

\* =====================================================================
\* maxengine_config.py
\* =====================================================================

InterleavedName == "MaxtextInterleavedServer"

\* create_maxengine(devices, config): devices is deleted, the engine is built
\* from config alone.
create_maxengine(devs, cfg) == [engine |-> "MaxEngine", config |-> cfg]

\* functools.partial(create_maxengine, config=config)
PartialCreate(cfg) == [func |-> "create_maxengine", config |-> cfg]

\* Calling such a partial with one positional argument.
CallPartial(fn, devs) == create_maxengine(devs, fn.config)

\* A slip: only the last digit of the device count is written.
InterleavedSliceLastDigit(n) == TpuPrefix \o <<Digit(n % 10)>>

InterleavedSlice(n) == TpuPrefix \o Str(n)

\* The ServerConfig built by the 'MaxtextInterleavedServer' case.
InterleavedServerConfig(cfg, n) ==
  [ prefill_slices                |-> <<>>,
    generate_slices               |-> <<>>,
    interleaved_slices            |-> <<InterleavedSlice(n)>>,
    prefill_engine_create_fns     |-> <<>>,
    generate_engine_create_fns    |-> <<>>,
    interleaved_engine_create_fns |-> <<PartialCreate(cfg)>> ]

\* A slip: the name is matched without regard to case.
MatchesInterleavedAnyCase(str) ==
  str \in {"MaxtextInterleavedServer", "maxtextinterleavedserver"}

\* match config_str: which case is taken.
MatchesInterleaved(str) == str = InterleavedName

Configs    == {"cfg_a", "cfg_b"}
ConfigStrs == {InterleavedName, "MaxtextPrefillServer", "maxtextinterleavedserver", ""}
DeviceSets == {"none_devices", "tpu_devices"}

ServerInit ==
  /\ entry \in {"main", "get_server_config"}
  /\ config \in Configs
  /\ device_count \in 1..MaxDeviceCount
  /\ IF entry = "main"
       THEN spc = "main_get_devices" /\ config_str = "unset"
       ELSE spc = "get_server_config" /\ config_str \in ConfigStrs
  /\ devices = "unset"
  /\ server_config = None
  /\ server_runs = <<>>
  /\ engines = {}
  /\ dev_reads = 0

\* The server program's variables when another program is the one running.
ServerIdle ==
  /\ entry = "none" /\ spc = "idle" /\ config = "cfg_a" /\ config_str = "unset"
  /\ device_count = 1 /\ devices = "unset" /\ server_config = None
  /\ server_runs = <<>> /\ engines = {} /\ dev_reads = 0

\* get_server_config, 'MaxtextInterleavedServer' case, then return.
GetServerConfigBuild ==
  /\ spc = "get_server_config"
  /\ MatchesInterleaved(config_str)
  /\ server_config' = InterleavedServerConfig(config, device_count)
  /\ dev_reads' = dev_reads + 1
  /\ spc' = IF entry = "main" THEN "main_run" ELSE "returned"
  /\ UNCHANGED <<entry, config_str, config, device_count, devices, server_runs, engines>>
  /\ UNCHANGED <<timeitVars, scriptVars, events>>

\* get_server_config, case _: raise NotImplementedError.
GetServerConfigRaise ==
  /\ spc = "get_server_config"
  /\ ~MatchesInterleaved(config_str)
  /\ spc' = "NotImplementedError"
  /\ UNCHANGED <<entry, config_str, config, device_count, devices, server_config,
                 server_runs, engines, dev_reads>>
  /\ UNCHANGED <<timeitVars, scriptVars, events>>

\* A holder of the returned ServerConfig calls one of its interleaved engine
\* create functions with some devices value.
CallCreateFn ==
  /\ spc \in {"returned", "main_wait"}
  /\ server_config # None
  /\ \E i \in 1..Len(server_config.interleaved_engine_create_fns), d \in DeviceSets :
       /\ CallPartial(server_config.interleaved_engine_create_fns[i], d) \notin engines
       /\ engines' = engines \cup
            {CallPartial(server_config.interleaved_engine_create_fns[i], d)}
  /\ UNCHANGED <<spc, entry, config_str, config, device_count, devices, server_config,
                 server_runs, dev_reads>>
  /\ UNCHANGED <<timeitVars, scriptVars, events>>

\* =====================================================================
\* maxengine_server.py
\* =====================================================================

\* A slip: main asks for a configuration get_server_config does not know.
MainConfigStrPrefill == "MaxtextPrefillServer"

\* The literal main passes to get_server_config.
MainConfigStr == InterleavedName

\* devices = server_lib.get_devices()
MainGetDevices ==
  /\ spc = "main_get_devices"
  /\ \E d \in DeviceSets : devices' = d
  /\ spc' = "main_get_config"
  /\ UNCHANGED <<entry, config_str, config, device_count, server_config, server_runs,
                 engines, dev_reads>>
  /\ UNCHANGED <<timeitVars, scriptVars, events>>

\* server_config = maxengine_config.get_server_config('MaxtextInterleavedServer', config)
MainCallGetServerConfig ==
  /\ spc = "main_get_config"
  /\ config_str' = MainConfigStr
  /\ spc' = "get_server_config"
  /\ UNCHANGED <<entry, config, device_count, devices, server_config, server_runs,
                 engines, dev_reads>>
  /\ UNCHANGED <<timeitVars, scriptVars, events>>

\* The keyword arguments of server_lib.run.
RunArgs(sc, devs) == [threads |-> Threads, port |-> Port, config |-> sc, devices |-> devs]

\* jetstream_server = server_lib.run(threads=128, port=9000, config=..., devices=...)
MainRun ==
  /\ spc = "main_run"
  /\ server_runs' = Append(server_runs, RunArgs(server_config, devices))
  /\ spc' = "main_wait"
  /\ UNCHANGED <<entry, config_str, config, device_count, devices, server_config,
                 engines, dev_reads>>
  /\ UNCHANGED <<timeitVars, scriptVars, events>>

\* jetstream_server.wait_for_termination() returns; main returns.
MainWaitReturns ==
  /\ spc = "main_wait"
  /\ spc' = "main_returned"
  /\ UNCHANGED <<entry, config_str, config, device_count, devices, server_config,
                 server_runs, engines, dev_reads>>
  /\ UNCHANGED <<timeitVars, scriptVars, events>>

\* =====================================================================
\* xaot_shardings.py: simple_timeit(f, tries, verbose)
\* =====================================================================

Event(op, arg) == [op |-> op, arg |-> arg]

\* One call of f that returns: it takes d ticks, and is logged with them.
CallF(d) ==
  /\ calls' = calls + 1
  /\ clock' = clock + d
  /\ events' = Append(events, Event("call", d))

\* A slip: the duration is taken from the start of the whole measurement.
DurationSinceZero(start, end) == end

\* (e - s) for two clock readings.
Duration(start, end) == end - start

\* sum(outcomes)/len(outcomes), kept as the exact fraction num/den.
Average(durations) == [num |-> Sum(durations), den |-> Len(durations)]

\* range(tries) still has an element after `done` iterations.
LoopContinues(done, n) == done < n

TimeitFrame(n) ==
  /\ tpc = "warmup" /\ tries = n /\ iter = 0 /\ s = 0
  /\ outcomes = <<>> /\ calls = 0 /\ average_time = None

TimeitIdle ==
  /\ tpc = "idle" /\ tries = 0 /\ iter = 0 /\ s = 0 /\ clock = 0
  /\ outcomes = <<>> /\ calls = 0 /\ average_time = None

\* outcomes = []; f()  -- the warm-up call
TimeitWarmup ==
  /\ tpc = "warmup"
  /\ \E d \in 0..MaxDur : CallF(d)
  /\ tpc' = "loop"
  /\ UNCHANGED <<tries, iter, s, outcomes, average_time>>
  /\ UNCHANGED <<serverVars, scriptVars>>

\* for _ in range(tries): s = datetime.datetime.now()
TimeitLoopStart ==
  /\ tpc = "loop"
  /\ LoopContinues(iter, tries)
  /\ s' = clock
  /\ tpc' = "call"
  /\ UNCHANGED <<tries, iter, clock, outcomes, calls, average_time, events>>
  /\ UNCHANGED <<serverVars, scriptVars>>

\* f()  -- a timed call
TimeitTimedCall ==
  /\ tpc = "call"
  /\ \E d \in 0..MaxDur : CallF(d)
  /\ tpc' = "stop"
  /\ UNCHANGED <<tries, iter, s, outcomes, average_time>>
  /\ UNCHANGED <<serverVars, scriptVars>>

\* e = datetime.datetime.now(); outcomes.append((e-s).total_seconds())
TimeitRecord ==
  /\ tpc = "stop"
  /\ outcomes' = Append(outcomes, Duration(s, clock))
  /\ iter' = iter + 1
  /\ tpc' = "loop"
  /\ UNCHANGED <<tries, clock, s, calls, average_time, events>>
  /\ UNCHANGED <<serverVars, scriptVars>>

\* average_time = sum(outcomes)/len(outcomes); return average_time
TimeitReturn ==
  /\ tpc = "loop"
  /\ ~LoopContinues(iter, tries)
  /\ Len(outcomes) > 0
  /\ average_time' = Average(outcomes)
  /\ tpc' = "returned"
  /\ UNCHANGED <<tries, iter, clock, s, outcomes, calls, events>>
  /\ UNCHANGED <<serverVars, scriptVars>>

\* sum(outcomes)/len(outcomes) with no outcome: ZeroDivisionError.
TimeitZeroDivision ==
  /\ tpc = "loop"
  /\ ~LoopContinues(iter, tries)
  /\ Len(outcomes) = 0
  /\ tpc' = "ZeroDivisionError"
  /\ UNCHANGED <<tries, iter, clock, s, outcomes, calls, average_time, events>>
  /\ UNCHANGED <<serverVars, scriptVars>>

\* f() raises, in the warm-up or in a timed call: simple_timeit propagates it.
TimeitFRaises ==
  /\ tpc \in {"warmup", "call"}
  /\ calls' = calls + 1
  /\ events' = Append(events, Event("call_raised", 0))
  /\ tpc' = "raised"
  /\ UNCHANGED <<tries, iter, clock, s, outcomes, average_time>>
  /\ UNCHANGED <<serverVars, scriptVars>>

\* =====================================================================
\* Python numbers: unbounded ints as bit sequences (most significant bit
\* first) and floats as a 53-bit significand with a binary exponent
\* =====================================================================

\* int.bit_length() of a non-negative int below 2^30.
BitLen(n) == CHOOSE k \in 0..30 : n < 2^k /\ (k = 0 \/ n >= 2^(k - 1))

\* The bits of a non-negative int below 2^30.
ToBits(n) == [i \in 1..BitLen(n) |-> (n \div 2^(BitLen(n) - i)) % 2]

\* F applied to the value of v: v is computed once, before F's body.
With(v, F(_)) == CHOOSE res \in {F(x) : x \in {v}} : TRUE

\* bits[lo..hi] times k plus an incoming carry: the digits and the carry out.
RECURSIVE MulRange(_, _, _, _, _)
MulRange(bits, k, lo, hi, carry) ==
  IF lo > hi THEN [d |-> <<>>, c |-> carry]
  ELSE IF lo = hi
  THEN LET v == bits[lo] * k + carry IN [d |-> <<v % 2>>, c |-> v \div 2]
  ELSE LET mid == (lo + hi) \div 2 IN
       With(MulRange(bits, k, mid + 1, hi, carry), LAMBDA right :
       With(MulRange(bits, k, lo, mid, right.c), LAMBDA left :
         [d |-> left.d \o right.d, c |-> left.c]))

\* int * int, the left factor as bits, the right one a small int.
MulBits(bits, k) ==
  With(bits, LAMBDA b :
  With(MulRange(b, k, 1, Len(b), 0), LAMBDA m : ToBits(m.c) \o m.d))

\* Drop leading zero bits.
Strip(bits) ==
  IF \A i \in 1..Len(bits) : bits[i] = 0 THEN <<>>
  ELSE LET first == CHOOSE i \in 1..Len(bits) :
                      bits[i] = 1 /\ \A j \in 1..(i - 1) : bits[j] = 0
       IN  SubSeq(bits, first, Len(bits))

\* Long division of bits (zero-extended to hi places) by d, places lo..hi,
\* with incoming remainder r: the quotient bits and the remainder left.
RECURSIVE LongDiv(_, _, _, _, _)
LongDiv(bits, d, lo, hi, r) ==
  IF lo > hi THEN [q |-> <<>>, r |-> r]
  ELSE IF lo = hi
  THEN LET v == 2 * r + (IF lo <= Len(bits) THEN bits[lo] ELSE 0)
       IN  IF v >= d THEN [q |-> <<1>>, r |-> v - d] ELSE [q |-> <<0>>, r |-> v]
  ELSE LET mid == (lo + hi) \div 2 IN
       With(LongDiv(bits, d, lo, mid, r), LAMBDA left :
       With(LongDiv(bits, d, mid + 1, hi, left.r), LAMBDA right :
         [q |-> left.q \o right.q, r |-> right.r]))

\* bits + 1.
Inc(bits) ==
  IF \A i \in 1..Len(bits) : bits[i] = 1
  THEN <<1>> \o [i \in 1..Len(bits) |-> 0]
  ELSE LET last == CHOOSE i \in 1..Len(bits) :
                     bits[i] = 0 /\ \A j \in (i + 1)..Len(bits) : bits[j] = 1
       IN  [i \in 1..Len(bits) |->
              IF i < last THEN bits[i] ELSE IF i = last THEN 1 ELSE 0]

FloatZero == [mant |-> <<>>, exp |-> 0]

\* Round to nearest, ties to even: whether the significand m is rounded up,
\* given the first dropped bit and whether anything non-zero follows it.
RoundsUp(m, round_bit, sticky) == round_bit = 1 /\ (sticky \/ m[Len(m)] = 1)

\* The significand q (at least Prec + 1 bits, the first one set) with
\* exponent ex for its first Prec bits, rounded to Prec bits; inexact says
\* that non-zero bits beyond q were dropped already.
RoundToPrec(q, ex, inexact) ==
  With(SubSeq(q, 1, Prec), LAMBDA m :
    IF ~RoundsUp(m, q[Prec + 1], inexact \/ \E j \in (Prec + 2)..Len(q) : q[j] = 1)
      THEN [mant |-> m, exp |-> ex]
      ELSE With(Inc(m), LAMBDA mi :
             IF Len(mi) > Prec THEN [mant |-> SubSeq(mi, 1, Prec), exp |-> ex + 1]
             ELSE [mant |-> mi, exp |-> ex]))

\* The float nearest to (bits * 2^e) / d, for d > 0: the correctly rounded
\* quotient both int / int and float / float produce.
FDiv(bits0, e, d) ==
  With(Strip(bits0), LAMBDA bits :
    IF bits = <<>> THEN FloatZero
    ELSE With(Len(bits) + BitLen(d) + Prec + 1, LAMBDA n :
         With(LongDiv(bits, d, 1, n, 0), LAMBDA qr :
         With(Strip(qr.q), LAMBDA q :
           RoundToPrec(q, e + Len(bits) - (n - Len(q)) - Prec, qr.r # 0)))))

\* int / 10**k (true division): 10^k = 5^k * 2^k, and the 2^k only moves
\* the exponent.
IntDivPow10(bits, k) == FDiv(bits, 0 - k, 5^k)

\* float / int, the int small enough to be a float exactly.
FloatDivInt(x, n) == FDiv(x.mant, x.exp, n)

\* =====================================================================
\* xaot_shardings.py: the script
\* =====================================================================

ProfilerPaths == {"", "/tmp/profile"}
DataFile      == "data_sharding.pkl"
LayersFile    == "layers_sharding.pkl"
Files         == {DataFile, LayersFile}

\* What a file holds before the run: nothing, or what an earlier run left.
Absent == [kind |-> "absent", of |-> "none"]
Stale  == [kind |-> "stale", of |-> "none"]

\* args = parser.parse_args(): the sharding arguments range over small sets,
\* the model-size arguments keep their defaults.
ArgSets ==
  [ profiler_path          : ProfilerPaths,
    embedding_dimension    : {DefaultEmbedding},
    batch_size             : {DefaultBatchSize},
    num_layers             : {DefaultNumLayers},
    dcn_data_parallelism   : 1..MaxDcn,
    dcn_fsdp_parallelism   : 1..MaxDcn,
    dcn_tensor_parallelism : 1..MaxDcn,
    ici_data_parallelism   : 1..MaxIci,
    ici_fsdp_parallelism   : 1..MaxIci,
    ici_tensor_parallelism : 1..MaxIci ]

\* The device set: `slices` slices of `per_slice` devices each; the devices
\* carry a slice_index attribute or not. Devices without one form one slice.
Envs ==
  { e \in [slices : 1..MaxSlices, per_slice : 1..MaxPerSlice, has_slice_index : BOOLEAN] :
      ~e.has_slice_index => e.slices = 1 }

dcn_parallelism(a) ==
  <<a.dcn_data_parallelism, a.dcn_fsdp_parallelism, a.dcn_tensor_parallelism>>
ici_parallelism(a) ==
  <<a.ici_data_parallelism, a.ici_fsdp_parallelism, a.ici_tensor_parallelism>>

\* num_devices = len(devices)
num_devices(e) == e.slices * e.per_slice

\* 1 + max(x.slice_index for x in jax.devices())
NumSlicesSeen(e) == e.slices

\* multi_slice_env = hasattr(devices[0], 'slice_index')
multi_slice_env(e) == e.has_slice_index

\* assert len(devices) > 1
DevicesAssertion(e) == num_devices(e) > 1

\* assert np.product(dcn_parallelism) * np.product(ici_parallelism) == num_devices
ProductAssertion(a, e) ==
  Product(dcn_parallelism(a)) * Product(ici_parallelism(a)) = num_devices(e)

\* assert args.dcn_data_parallelism == 1 + max(x.slice_index for x in jax.devices())
SlicesAssertion(a, e) == a.dcn_data_parallelism = NumSlicesSeen(e)

\* The mesh_utils call the script makes.
MeshRequest(a, e) ==
  IF multi_slice_env(e)
    THEN [ call |-> "create_hybrid_device_mesh", mesh_shape |-> ici_parallelism(a),
           dcn_mesh_shape |-> dcn_parallelism(a), ndevices |-> num_devices(e) ]
    ELSE [ call |-> "create_device_mesh", mesh_shape |-> ici_parallelism(a),
           dcn_mesh_shape |-> <<>>, ndevices |-> num_devices(e) ]

BATCH(a, e)   == num_devices(e) * a.batch_size
D_EMB(a)      == a.embedding_dimension
D_FF(a)       == 4 * D_EMB(a)
NUM_LAYERS(a) == a.num_layers
parameters(a) == 2 * D_FF(a) * D_EMB(a) * NUM_LAYERS(a)

\* A slip: the total is divided by the devices of one slice only.
TFLOPsPerSliceDevice(a, e) ==
  With(MulBits(ToBits(parameters(a) * FlopsPerParam), BATCH(a, e)), LAMBDA flops :
  With(IntDivPow10(flops, TeraExp), LAMBDA tflops :
    FloatDivInt(tflops, e.per_slice)))

\* TFLOPs_per_device = parameters * 6 * BATCH / 10**12 / len(devices)
TFLOPsPerDevice(a, e) ==
  With(MulBits(ToBits(parameters(a) * FlopsPerParam), BATCH(a, e)), LAMBDA flops :
  With(IntDivPow10(flops, TeraExp), LAMBDA tflops :
    FloatDivInt(tflops, num_devices(e))))

Unbound == [pjit_gen_data |-> "unbound", pjit_gen_layers |-> "unbound",
            pjit_func |-> "unbound"]

\* save_xaot = True
save_xaot == TRUE

ScriptInit ==
  /\ pc = "check_devices"
  /\ args \in ArgSets
  /\ env \in Envs
  /\ devices_array = None
  /\ xs = None
  /\ bound = Unbound
  /\ fs \in [Files -> {Absent, Stale}]
  /\ trace_open = 0
  /\ TFLOPs_per_device = None
  /\ error = "none"

ScriptIdle ==
  /\ pc = "idle" /\ args = None /\ env = None /\ devices_array = None
  /\ xs = None /\ bound = Unbound /\ fs = [f \in Files |-> Absent]
  /\ trace_open = 0 /\ TFLOPs_per_device = None /\ error = "none"

\* An uncaught exception ends the script.
Abort(exc) == pc' = "aborted" /\ error' = exc

\* assert len(devices) > 1, "You must have at least two devices"
CheckDevices ==
  /\ pc = "check_devices"
  /\ IF DevicesAssertion(env)
       THEN pc' = "check_product" /\ error' = error
       ELSE Abort("AssertionError")
  /\ UNCHANGED <<args, env, devices_array, xs, bound, fs, trace_open,
                 TFLOPs_per_device, events>>
  /\ UNCHANGED <<serverVars, timeitVars>>

\* assert np.product(dcn_parallelism) * np.product(ici_parallelism) == num_devices
CheckProduct ==
  /\ pc = "check_product"
  /\ IF ProductAssertion(args, env)
       THEN pc' = "make_mesh" /\ error' = error
       ELSE Abort("AssertionError")
  /\ UNCHANGED <<args, env, devices_array, xs, bound, fs, trace_open,
                 TFLOPs_per_device, events>>
  /\ UNCHANGED <<serverVars, timeitVars>>

\* if multi_slice_env: assert ...; create_hybrid_device_mesh(...)
\* else: create_device_mesh(...);  then mesh = Mesh(devices_array, ...)
MakeMesh ==
  /\ pc = "make_mesh"
  /\ IF multi_slice_env(env) /\ ~SlicesAssertion(args, env)
       THEN Abort("AssertionError") /\ UNCHANGED <<devices_array, events>>
       ELSE /\ devices_array' = MeshRequest(args, env)
            /\ events' = Append(events, Event("mesh", MeshRequest(args, env).call))
            /\ pc' = IF save_xaot THEN "save_gen_data" ELSE "preshard"
            /\ error' = error
  /\ UNCHANGED <<args, env, xs, bound, fs, trace_open, TFLOPs_per_device>>
  /\ UNCHANGED <<serverVars, timeitVars>>

\* ---------------------------------------------------------------------
\* xaot_save(func, mesh, pickle_filename, *example_args, ...)
\* ---------------------------------------------------------------------

\* The frame of a call: the function saved, the file named, the name the
\* caller binds the returned pjit_func to, and how far the body has got.
XaotFrame(func, file, target) ==
  [func |-> func, file |-> file, target |-> target, stage |-> "entered"]

\* What serialize(compiled) yields for the executable of func.
Serialized(func) == [kind |-> "executable", of |-> func]

\* A slip: the block that saves training_step is left out of `if save_xaot:`.
SaveCallsWithoutTrainingStep ==
  [ save_gen_data      |-> [frame |-> XaotFrame("gen_data", DataFile, "pjit_gen_data"),
                            next  |-> "save_gen_layers"],
    save_gen_layers    |-> [frame |-> XaotFrame("gen_layers", LayersFile, "pjit_gen_layers"),
                            next  |-> "preshard"],
    save_training_step |-> [frame |-> XaotFrame("training_step", LayersFile, "pjit_func"),
                            next  |-> "preshard"] ]

\* The three call sites, in program order: what each passes and where the
\* script goes once the call has returned.
SaveCalls ==
  [ save_gen_data      |-> [frame |-> XaotFrame("gen_data", DataFile, "pjit_gen_data"),
                            next  |-> "save_gen_layers"],
    save_gen_layers    |-> [frame |-> XaotFrame("gen_layers", LayersFile, "pjit_gen_layers"),
                            next  |-> "example_args"],
    save_training_step |-> [frame |-> XaotFrame("training_step", LayersFile, "pjit_func"),
                            next  |-> "preshard"] ]

SaveSites == {"save_gen_data", "save_gen_layers", "save_training_step"}

\* The script calls xaot_save.
CallXaotSave ==
  /\ pc \in SaveSites
  /\ xs = None
  /\ xs' = SaveCalls[pc].frame
  /\ events' = Append(events, Event("xaot_save", SaveCalls[pc].frame.func))
  /\ UNCHANGED <<pc, args, env, devices_array, bound, fs, trace_open,
                 TFLOPs_per_device, error>>
  /\ UNCHANGED <<serverVars, timeitVars>>

XaotAdvance(from, to, op) ==
  /\ pc \in SaveSites
  /\ xs # None
  /\ xs.stage = from
  /\ xs' = [xs EXCEPT !.stage = to]
  /\ events' = Append(events, Event(op, xs.func))
  /\ UNCHANGED <<pc, args, env, devices_array, bound, fs, trace_open,
                 TFLOPs_per_device, error>>
  /\ UNCHANGED <<serverVars, timeitVars>>

\* with mesh: pjit_func = pjit(func, ...); lowered = pjit_func.lower(*example_args)
XaotLower == XaotAdvance("entered", "lowered", "lower")

\* compiled = lowered.compile()
XaotCompile == XaotAdvance("lowered", "compiled", "compile")

\* serialized, in_tree, out_tree = serialize(compiled)
XaotSerialize == XaotAdvance("compiled", "serialized", "serialize")

\* A slip: a file that already holds an executable is left as it is.
WriteFileKeepExisting(files, name, content) ==
  IF files[name].kind = "executable" THEN files ELSE [files EXCEPT ![name] = content]

\* with open(pickle_filename, "wb") as f: pickle.dump(serialized, f)
WriteFile(files, name, content) == [files EXCEPT ![name] = content]

XaotWrite ==
  /\ pc \in SaveSites
  /\ xs # None
  /\ xs.stage = "serialized"
  /\ fs' = WriteFile(fs, xs.file, Serialized(xs.func))
  /\ xs' = [xs EXCEPT !.stage = "written"]
  /\ events' = Append(events, Event("write", xs.file))
  /\ UNCHANGED <<pc, args, env, devices_array, bound, trace_open,
                 TFLOPs_per_device, error>>
  /\ UNCHANGED <<serverVars, timeitVars>>

\* return pjit_func, ...; the caller binds the first element and goes on.
XaotReturn ==
  /\ pc \in SaveSites
  /\ xs # None
  /\ xs.stage = "written"
  /\ bound' = [bound EXCEPT ![xs.target] = xs.func]
  /\ xs' = None
  /\ pc' = SaveCalls[pc].next
  /\ UNCHANGED <<args, env, devices_array, fs, trace_open, TFLOPs_per_device,
                 error, events>>
  /\ UNCHANGED <<serverVars, timeitVars>>

\* Lowering, compiling, serializing or opening the file raises.
XaotRaises ==
  /\ pc \in SaveSites
  /\ xs # None
  /\ xs.stage \in {"entered", "lowered", "compiled", "serialized"}
  /\ Abort("Exception")
  /\ UNCHANGED <<args, env, devices_array, xs, bound, fs, trace_open,
                 TFLOPs_per_device, events>>
  /\ UNCHANGED <<serverVars, timeitVars>>

\* ---------------------------------------------------------------------
\* The rest of the script
\* ---------------------------------------------------------------------

\* presharded_X = pjit_gen_data(key); presharded_layers = pjit_gen_layers(key)
\* A name that was never bound raises NameError.
Preshard(next) ==
  /\ IF bound.pjit_gen_data = "unbound" \/ bound.pjit_gen_layers = "unbound"
       THEN Abort("NameError") /\ events' = events
       ELSE /\ pc' = next
            /\ error' = error
            /\ events' = events \o <<Event("run", bound.pjit_gen_data),
                                     Event("run", bound.pjit_gen_layers)>>
  /\ UNCHANGED <<args, env, devices_array, xs, bound, fs, trace_open,
                 TFLOPs_per_device>>
  /\ UNCHANGED <<serverVars, timeitVars>>

\* with use_mesh: ... (inside `if save_xaot:`, before saving training_step)
ExampleArgs == pc = "example_args" /\ Preshard("save_training_step")

\* with use_mesh: ... (the timing block's first two statements)
PreshardForTiming == pc = "preshard" /\ Preshard("activate")

\* activate_profiler(args.profiler_path)
ActivateProfiler ==
  /\ pc = "activate"
  /\ IF args.profiler_path # ""
       THEN /\ trace_open' = trace_open + 1
            /\ events' = Append(events, Event("start_trace", args.profiler_path))
       ELSE UNCHANGED <<trace_open, events>>
  /\ pc' = "flops"
  /\ UNCHANGED <<args, env, devices_array, xs, bound, fs, TFLOPs_per_device, error>>
  /\ UNCHANGED <<serverVars, timeitVars>>

\* TFLOPs_per_device = parameters * 6 * BATCH / 10**12 / len(devices)
ComputeTFLOPs ==
  /\ pc = "flops"
  /\ TFLOPs_per_device' = TFLOPsPerDevice(args, env)
  /\ pc' = "call_timeit"
  /\ UNCHANGED <<args, env, devices_array, xs, bound, fs, trace_open, error, events>>
  /\ UNCHANGED <<serverVars, timeitVars>>

\* time = simple_timeit(lambda: jax.block_until_ready(pjit_func(...)))
CallTimeit ==
  /\ pc = "call_timeit"
  /\ tpc = "idle"
  /\ tpc' = "warmup"
  /\ tries' = DefaultTries
  /\ pc' = "timeit"
  /\ UNCHANGED <<iter, clock, s, outcomes, calls, average_time>>
  /\ UNCHANGED <<args, env, devices_array, xs, bound, fs, trace_open,
                 TFLOPs_per_device, error, events>>
  /\ UNCHANGED serverVars

\* simple_timeit has returned: print(f"... TFLOP/s is {TFLOPs_per_device/time}").
\* A float division by 0.0 raises ZeroDivisionError.
PrintResult ==
  /\ pc = "timeit"
  /\ tpc = "returned"
  /\ IF average_time.num = 0
       THEN Abort("ZeroDivisionError")
       ELSE pc' = "deactivate" /\ error' = error
  /\ UNCHANGED <<args, env, devices_array, xs, bound, fs, trace_open,
                 TFLOPs_per_device, events>>
  /\ UNCHANGED <<serverVars, timeitVars>>

\* The exception f raised leaves simple_timeit and ends the script.
TimeitPropagates ==
  /\ pc = "timeit"
  /\ tpc = "raised"
  /\ Abort("Exception")
  /\ UNCHANGED <<args, env, devices_array, xs, bound, fs, trace_open,
                 TFLOPs_per_device, events>>
  /\ UNCHANGED <<serverVars, timeitVars>>

\* A slip: the trace is never stopped.
DeactivateProfilerWithoutStop ==
  /\ pc = "deactivate"
  /\ pc' = "done"
  /\ UNCHANGED <<args, env, devices_array, xs, bound, fs, TFLOPs_per_device, error,
                 trace_open, events>>
  /\ UNCHANGED <<serverVars, timeitVars>>

\* deactivate_profiler(args.profiler_path)
DeactivateProfiler ==
  /\ pc = "deactivate"
  /\ IF args.profiler_path # ""
       THEN /\ trace_open' = trace_open - 1
            /\ events' = Append(events, Event("stop_trace", args.profiler_path))
       ELSE UNCHANGED <<trace_open, events>>
  /\ pc' = "done"
  /\ UNCHANGED <<args, env, devices_array, xs, bound, fs, TFLOPs_per_device, error>>
  /\ UNCHANGED <<serverVars, timeitVars>>

\* =====================================================================
\* Specifications
\* =====================================================================

\* --- the serving program
InitServer == ServerInit /\ TimeitIdle /\ ScriptIdle /\ events = <<>>

NextServer ==
  \/ GetServerConfigBuild
  \/ GetServerConfigRaise
  \/ CallCreateFn
  \/ MainGetDevices
  \/ MainCallGetServerConfig
  \/ MainRun
  \/ MainWaitReturns

SpecServer == InitServer /\ [][NextServer]_vars

\* --- simple_timeit called directly
InitTimeit ==
  /\ ServerIdle /\ ScriptIdle /\ events = <<>>
  /\ clock = 0
  /\ \E n \in 0..MaxTries : TimeitFrame(n)

NextTimeit ==
  \/ TimeitWarmup
  \/ TimeitLoopStart
  \/ TimeitTimedCall
  \/ TimeitRecord
  \/ TimeitReturn
  \/ TimeitZeroDivision
  \/ TimeitFRaises

SpecTimeit == InitTimeit /\ [][NextTimeit]_vars

\* --- one run of the benchmark script
Init == ServerIdle /\ TimeitIdle /\ ScriptInit /\ events = <<>>

Next ==
  \/ CheckDevices
  \/ CheckProduct
  \/ MakeMesh
  \/ CallXaotSave
  \/ XaotLower
  \/ XaotCompile
  \/ XaotSerialize
  \/ XaotWrite
  \/ XaotReturn
  \/ XaotRaises
  \/ ExampleArgs
  \/ PreshardForTiming
  \/ ActivateProfiler
  \/ ComputeTFLOPs
  \/ CallTimeit
  \/ TimeitWarmup
  \/ TimeitLoopStart
  \/ TimeitTimedCall
  \/ TimeitRecord
  \/ TimeitReturn
  \/ TimeitFRaises
  \/ PrintResult
  \/ TimeitPropagates
  \/ DeactivateProfiler

Spec == Init /\ [][Next]_vars

\* =====================================================================
\* Properties of the serving program (checked under SpecServer)
\* =====================================================================

DigitValue(c) == CHOOSE d \in 0..9 : Digit(d) = c

IsDigit(c) == \E d \in 0..9 : Digit(d) = c

\* int(text) for a sequence of decimal digits.
RECURSIVE ParseInt(_)
ParseInt(text) ==
  IF text = <<>> THEN 0
  ELSE 10 * ParseInt(SubSeq(text, 1, Len(text) - 1)) + DigitValue(text[Len(text)])

\* text is 'tpu=' followed by the decimal numeral of n.
IsTpuSlice(text, n) ==
  /\ Len(text) > 4
  /\ SubSeq(text, 1, 4) = <<"t", "p", "u", "=">>
  /\ \A i \in 5..Len(text) : IsDigit(text[i])
  /\ (Len(text) > 5 => text[5] # "0")
  /\ ParseInt(SubSeq(text, 5, Len(text))) = n

\* The call of get_server_config has ended (by a return or by a raise).
CallEnded == config_str # "unset" /\ spc # "get_server_config"

\* C1: get_server_config('MaxtextInterleavedServer', config) returns, for every
\* config and every device count N, a ServerConfig whose prefill and generate
\* slices and create functions are empty, whose interleaved_slices is exactly
\* ('tpu=N',), and whose one interleaved create function builds, for any
\* devices value, the engine from that config.
C1_InterleavedConfig ==
  (CallEnded /\ config_str = "MaxtextInterleavedServer") =>
    /\ spc # "NotImplementedError"
    /\ server_config # None
    /\ server_config.prefill_slices = <<>>
    /\ server_config.generate_slices = <<>>
    /\ server_config.prefill_engine_create_fns = <<>>
    /\ server_config.generate_engine_create_fns = <<>>
    /\ Len(server_config.interleaved_slices) = 1
    /\ IsTpuSlice(server_config.interleaved_slices[1], device_count)
    /\ Len(server_config.interleaved_engine_create_fns) = 1
    /\ \A d \in DeviceSets :
         CallPartial(server_config.interleaved_engine_create_fns[1], d)
           = [engine |-> "MaxEngine", config |-> config]
    /\ engines \subseteq {[engine |-> "MaxEngine", config |-> config]}

\* C1 witness: a direct call has returned with a two-digit device count and
\* the returned create function has been called.
C1_Witness ==
  /\ entry = "get_server_config" /\ spc = "returned"
  /\ device_count >= 10
  /\ engines # {}

\* C2: for every config_str other than 'MaxtextInterleavedServer' the call
\* raises NotImplementedError, returns no ServerConfig, creates no engine and
\* reads no device count.
C2_OtherNamesRaise ==
  (config_str \notin {"unset", "MaxtextInterleavedServer"}) =>
    /\ server_config = None
    /\ engines = {}
    /\ dev_reads = 0
    /\ CallEnded => spc = "NotImplementedError"

\* C2 witness: the call with the lower-case spelling of the name has raised.
C2_Witness ==
  /\ spc = "NotImplementedError"
  /\ config_str = "maxtextinterleavedserver"

\* C8, the part that holds in every state of a run of main.
C8_MainState ==
  (entry = "main") =>
    /\ config_str \in {"unset", "MaxtextInterleavedServer"}
    /\ spc # "NotImplementedError"
    /\ (server_config # None => devices # "unset")
    /\ Len(server_runs) <= 1
    /\ (server_runs # <<>> =>
          /\ server_config # None
          /\ server_runs[1] = [threads |-> 128, port |-> 9000,
                               config |-> server_config, devices |-> devices])
    /\ (spc \in {"main_wait", "main_returned"} => Len(server_runs) = 1)

\* C8: main always selects 'MaxtextInterleavedServer' and so never sees
\* NotImplementedError; it gets the devices, then the server configuration,
\* then starts the server exactly once with threads=128 and port=9000, and
\* returns only from waiting for the server's termination.
C8_MainSequence ==
  /\ []C8_MainState
  /\ [][(entry = "main" /\ spc' = "main_returned") => spc = "main_wait"]_vars
  /\ [][(entry = "main" /\ server_runs' # server_runs) =>
          (server_config # None /\ devices # "unset")]_vars

\* C8 witness: main has returned.
C8_Witness == entry = "main" /\ spc = "main_returned" /\ Len(server_runs) = 1

\* =====================================================================
\* Properties of simple_timeit (checked under SpecTimeit)
\* =====================================================================

\* The calls of f that returned, in order.
CallLog == SelectSeq(events, LAMBDA e : e.op = "call")

\* C5: for tries >= 1, simple_timeit calls f exactly tries + 1 times, the
\* first call an untimed warm-up; it records exactly tries durations, the
\* i-th being end minus start of the (i+1)-th call; and it returns the sum of
\* those durations divided by tries.
C5_TimeitCounts ==
  (tries >= 1 /\ tpc # "idle") =>
    /\ tpc # "ZeroDivisionError"
    /\ (tpc = "returned" =>
          /\ calls = tries + 1
          /\ Len(CallLog) = tries + 1
          /\ Len(outcomes) = tries
          /\ \A i \in 1..tries : outcomes[i] = CallLog[i + 1].arg
          /\ average_time = [num |-> Sum(outcomes), den |-> tries])

\* C5 witness: a call with the largest tries has returned, after a warm-up
\* that took time and timed calls of different lengths.
C5_Witness ==
  /\ tpc = "returned" /\ tries = MaxTries
  /\ CallLog[1].arg > 0
  /\ \E i, j \in 1..Len(outcomes) : outcomes[i] # outcomes[j]

\* =====================================================================
\* Properties of the benchmark script (checked under Spec)
\* =====================================================================

Count(op) == Len(SelectSeq(events, LAMBDA e : e.op = op))

\* The script is in, or has been in, the block that times the training step.
TimingPhase ==
  \/ pc \in {"preshard", "activate", "flops", "call_timeit", "timeit", "deactivate", "done"}
  \/ TFLOPs_per_device # None

\* What xaot_save did, in order.
SaveLog == SelectSeq(events, LAMBDA e : e.op \in {"lower", "compile", "serialize", "write"})

FullSaveLog ==
  << Event("lower", "gen_data"), Event("compile", "gen_data"),
     Event("serialize", "gen_data"), Event("write", "data_sharding.pkl"),
     Event("lower", "gen_layers"), Event("compile", "gen_layers"),
     Event("serialize", "gen_layers"), Event("write", "layers_sharding.pkl"),
     Event("lower", "training_step"), Event("compile", "training_step"),
     Event("serialize", "training_step"), Event("write", "layers_sharding.pkl") >>

\* C4: a run that reaches the timing phase has by then lowered, compiled,
\* serialized and written the training step, after saving gen_data and then
\* gen_layers; no call of the training step happens before its serialized
\* executable is on disk.
C4_SavedBeforeTiming ==
  (pc # "idle" /\ (TimingPhase \/ calls > 0)) =>
    /\ SaveLog = FullSaveLog
    /\ fs["layers_sharding.pkl"] = [kind |-> "executable", of |-> "training_step"]
    /\ bound.pjit_func = "training_step"

\* C4 witness: the warm-up call of the training step has been made.
C4_Witness == pc = "timeit" /\ calls = 1 /\ tpc = "loop"

\* The positions of the log at which f was called.
CallPositions == {i \in 1..Len(events) : events[i].op \in {"call", "call_raised"}}

\* The profiler has been passed (activated or skipped).
PastActivate ==
  \/ pc \in {"flops", "call_timeit", "timeit", "deactivate", "done"}
  \/ TFLOPs_per_device # None

\* C7: the trace is started iff --profiler_path is non-empty and stopped iff
\* it was started; the start precedes every call of the training step and the
\* stop follows the last one; at most one trace is open at any time and none
\* is open when the script ends normally.
C7_ProfilerBracket ==
  (pc # "idle") =>
    /\ trace_open \in {0, 1}
    /\ trace_open = Count("start_trace") - Count("stop_trace")
    /\ Count("start_trace") <= 1
    /\ (Count("start_trace") = 1 => args.profiler_path # "")
    /\ (PastActivate => (Count("start_trace") = 1 <=> args.profiler_path # ""))
    /\ (pc = "done" => (Count("stop_trace") = Count("start_trace") /\ trace_open = 0))
    /\ \A i \in CallPositions :
         /\ args.profiler_path # "" => \E j \in 1..(i - 1) : events[j].op = "start_trace"
         /\ \A j \in 1..(i - 1) : events[j].op # "stop_trace"
    /\ (Count("stop_trace") = 1 => Count("call") = 6)

\* C7 witness: a profiled run has ended normally, its trace stopped.
C7_Witness ==
  /\ pc = "done" /\ args.profiler_path # ""
  /\ Count("stop_trace") = 1 /\ trace_open = 0

\* The functions xaot_save was called for, and the files it wrote, in order.
SavedFuncs == SelectSeq(events, LAMBDA e : e.op = "xaot_save")
WrittenFiles == SelectSeq(events, LAMBDA e : e.op = "write")

IsPrefix(a, b) == Len(a) <= Len(b) /\ SubSeq(b, 1, Len(a)) = a

\* C10: xaot_save is called exactly three times, for gen_data, gen_layers and
\* training_step in that order, the third call writing the file the second
\* wrote; at the end data_sharding.pkl holds the gen_data executable,
\* layers_sharding.pkl the training_step executable, and the gen_layers
\* executable is in no file.
C10_ThreeSaves ==
  (pc # "idle") =>
    /\ IsPrefix(SavedFuncs, << Event("xaot_save", "gen_data"),
                              Event("xaot_save", "gen_layers"),
                              Event("xaot_save", "training_step") >>)
    /\ IsPrefix(WrittenFiles, << Event("write", "data_sharding.pkl"),
                                Event("write", "layers_sharding.pkl"),
                                Event("write", "layers_sharding.pkl") >>)
    /\ (pc = "done" => Len(SavedFuncs) = 3)
    /\ ((pc = "done" \/ Len(WrittenFiles) = 3) =>
          /\ fs["data_sharding.pkl"] = [kind |-> "executable", of |-> "gen_data"]
          /\ fs["layers_sharding.pkl"] = [kind |-> "executable", of |-> "training_step"]
          /\ \A f \in DOMAIN fs : fs[f] # [kind |-> "executable", of |-> "gen_layers"])

\* C10 witness: the run has ended normally.
C10_Witness == pc = "done" /\ Len(WrittenFiles) = 3

\* 6 * parameters * batch_size / 10**12, as Python evaluates it.
WorkPerDevice(a) ==
  With(MulBits(ToBits(6 * parameters(a)), a.batch_size), LAMBDA flops :
    IntDivPow10(flops, 12))

IsPowerOfTwo(n) == \E k \in 0..30 : n = 2^k

\* The float next above x > 0.
NextUp(x) ==
  IF \A i \in 1..Len(x.mant) : x.mant[i] = 1
    THEN [mant |-> [i \in 1..Len(x.mant) |-> IF i = 1 THEN 1 ELSE 0], exp |-> x.exp + 1]
    ELSE [mant |-> Inc(x.mant), exp |-> x.exp]

\* x and y are the same float or neighbouring floats.
WithinOneUlp(x, y) == x = y \/ NextUp(x) = y \/ NextUp(y) = x

\* C6 as stated: for every device count the per-device work equals
\* 6 * parameters * batch_size / 10^12, with parameters = 8 * d^2 * layers.
C6_IndependentOfDevices ==
  (pc = "call_timeit") =>
    /\ parameters(args) = 8 * args.embedding_dimension * args.embedding_dimension
                            * args.num_layers
    /\ TFLOPs_per_device = WorkPerDevice(args)

\* C6 amended: the per-device work equals 6 * parameters * batch_size / 10^12
\* when the device count is a power of two; for any other device count it is
\* that float or one of its two neighbours, the two divisions having rounded.
C6_EqualUpToRounding ==
  (pc = "call_timeit") =>
    /\ parameters(args) = 8 * args.embedding_dimension * args.embedding_dimension
                            * args.num_layers
    /\ WithinOneUlp(TFLOPs_per_device, WorkPerDevice(args))
    /\ (IsPowerOfTwo(num_devices(env)) => TFLOPs_per_device = WorkPerDevice(args))

\* C6 witness: the figure has been computed for six devices, two slices of
\* three, and is not the float 6 * parameters * batch_size / 10^12.
C6_Witness ==
  /\ pc = "call_timeit"
  /\ env.slices = 2 /\ env.per_slice = 3
  /\ TFLOPs_per_device # WorkPerDevice(args)

\* The sharding arguments are as the parser's description asks: the product
\* of the dcn dimensions is the number of slices, the product of the ici
\* dimensions the number of devices per slice.
ShardingAsDocumented ==
  /\ Product(dcn_parallelism(args)) = env.slices
  /\ Product(ici_parallelism(args)) = env.per_slice

\* C3: with sharding arguments as documented (and the two devices the script
\* asks for), every validation assertion passes and a mesh is created, a
\* hybrid one in a multi-slice environment and a plain one otherwise.
C3_DocumentedShardingAccepted ==
  (pc # "idle" /\ ShardingAsDocumented /\ num_devices(env) > 1) =>
    /\ error # "AssertionError"
    /\ (pc \notin {"check_devices", "check_product", "make_mesh"} =>
          /\ devices_array # None
          /\ devices_array.call = IF env.has_slice_index
                                    THEN "create_hybrid_device_mesh"
                                    ELSE "create_device_mesh")

\* C9: the mesh shape requested covers exactly the available devices: the
\* product of the ici dimensions is num_devices in a single-slice
\* environment, and times the product of the dcn dimensions it is
\* num_devices in a multi-slice environment.
C9_MeshCoversDevices ==
  (pc # "idle" /\ devices_array # None) =>
    IF env.has_slice_index
      THEN Product(devices_array.mesh_shape) * Product(devices_array.dcn_mesh_shape)
             = env.slices * env.per_slice
      ELSE Product(devices_array.mesh_shape) = env.slices * env.per_slice

=============================================================================
